---- MODULE Spec2Model ----
(***************************************************************************)
(* Model of src/libostree/ostree-metalink.c: the metalink request state    *)
(* machine (metalink_parser_start / _end / _text), the end-of-stream       *)
(* validation (start_target_request_phase) and the chunked read loop       *)
(* (on_retrieved_metalink, on_metalink_bytes_read) and the blocking        *)
(* request (_ostree_metalink_request_sync, on_async_result).               *)
(*                                                                         *)
(* Spec          the request fed a document in chunks                      *)
(* SyncSpec      the same request started by the blocking request          *)
(* PreflightSpec the end-of-stream validation on each value of its fields  *)
(* MachineSpec   the handlers of a new request on any sequence of events   *)
(* HandlerSpec   the handlers on each request inside a file element        *)
(*                                                                         *)
(* Strings are sequences of one-character strings, so that the conversions *)
(* of the code (g_ascii_strtoull, strspn, soup_uri_new) are computed.      *)
(***************************************************************************)
EXTENDS Integers, Sequences, FiniteSets, TLC

----------------------------------------------------------------------------
(* Bounds of the model *)

\* deepest nesting of open elements the scanner is fed
MaxDepth == 5
\* most consecutive text events between two tags
MaxFragments == 2
\* cap of the passthrough_depth counter (it is never decremented by the code)
MaxPassthrough == 3
\* most candidate urls of a request
MaxUrls == 2

----------------------------------------------------------------------------
(* Values *)

\* the null pointer, among strings (a string is a sequence of characters)
NULL == << "NULL" >>

\* the file name given to _ostree_metalink_new
requested_file == "summary"

OstreeMetalinkState ==
  {"INITIAL", "METALINK", "FILES", "FILE", "SIZE", "VERIFICATION", "HASH",
   "RESOURCES", "URL", "PASSTHROUGH", "ERROR"}

\* GChecksumType; g_new0 leaves verification_type at its zero value
GChecksumType == {"G_CHECKSUM_MD5", "G_CHECKSUM_SHA1", "G_CHECKSUM_SHA256", "G_CHECKSUM_SHA512"}

\* errors set by the handlers, by the scanner and by the end-of-stream validation
NoError == "NoError"
E_ATTR == "G_MARKUP_ERROR_MISSING_ATTRIBUTE"
E_SYNTAX == "G_MARKUP_ERROR_PARSE"
E_SIZE == "No <size> element found or it is zero"
E_VERIFICATION == "No <verification> element with known <hash type=> found"
E_NOFILE == "No <file> element found"
E_NOTOURS == "No <file name='%s'> found"
E_NOHASH == "No <verification> hash for sha256 or sha512 found"
E_SHA256 == "Invalid hash digest for sha256"
E_SHA512 == "Invalid hash digest for sha512"
E_NOURL == "No <url method='http'> elements found"

\* expected digest lengths passed to valid_hex_checksum
SHA256_LEN == 64
SHA512_LEN == 128

----------------------------------------------------------------------------
(* Strings *)

\* the string of n characters c
Rep(c, n) == [i \in 1..n |-> c]

Digits == {"0", "1", "2", "3", "4", "5", "6", "7", "8", "9"}
DigitValue(c) ==
  CASE c = "0" -> 0 [] c = "1" -> 1 [] c = "2" -> 2 [] c = "3" -> 3 [] c = "4" -> 4
    [] c = "5" -> 5 [] c = "6" -> 6 [] c = "7" -> 7 [] c = "8" -> 8 [] c = "9" -> 9

\* the accept set of strspn in valid_hex_checksum: "01234567890abcdef"
HexAccept == Digits \cup {"a", "b", "c", "d", "e", "f"}

Whitespace == {" "}

\* strspn (s, accept): the length of the longest prefix of s made of
\* characters of accept
strspn(s, accept) ==
  LET reject == {i \in 1..Len(s) : s[i] \notin accept}
  IN IF reject = {} THEN Len(s)
     ELSE (CHOOSE i \in reject : \A j \in reject : i <= j) - 1

RECURSIVE DecimalFrom(_, _, _)
DecimalFrom(s, i, acc) ==
  IF i > Len(s) \/ s[i] \notin Digits THEN acc
  ELSE DecimalFrom(s, i + 1, acc * 10 + DigitValue(s[i]))

\* g_ascii_strtoull (s, NULL, 10): leading white space is skipped, the longest
\* run of decimal digits is converted, anything after it is ignored, and a
\* string with no digits yields 0.  (The texts of the model are too short to
\* reach G_MAXUINT64.)
g_ascii_strtoull(s) == DecimalFrom(s, 1 + strspn(s, Whitespace), 0)

\* soup_uri_new (text) returns NULL unless the text starts with a scheme
\* (letters) followed by ':'
SchemeChars == {"a", "b", "c", "d", "e", "f", "h", "m"}
soup_uri_new(s) ==
  LET n == strspn(s, SchemeChars)
  IN IF n > 0 /\ n < Len(s) /\ s[n + 1] = ":" THEN s ELSE NULL

\* valid_hex_checksum without the test of the terminator after the hex run
valid_hex_checksum_prefix(s, expected_len) ==
  strspn(s, HexAccept) = expected_len

\* static gboolean valid_hex_checksum (const char *s, gsize expected_len)
valid_hex_checksum(s, expected_len) ==
  LET len == strspn(s, HexAccept)
  IN len = expected_len /\ len = Len(s)

----------------------------------------------------------------------------
(* Inputs: what the markup scanner can deliver *)

NoAttr == "NoAttr"

ElementNames ==
  {"metalink", "files", "file", "size", "verification", "hash", "resources",
   "url", "description"}

\* the value of the one attribute the code collects for the element
\* (file: name, hash: name, url: protocol); NoAttr when it is absent
AttrValues(element_name) ==
  CASE element_name = "file" -> {NoAttr, requested_file, "other.iso"}
    [] element_name = "hash" -> {NoAttr, "sha256", "sha512", "md5"}
    [] element_name = "url" -> {NoAttr, "http", "https", "ftp"}
    [] OTHER -> {NoAttr}

\* text fragments: decimal digits, a URI, and a run of hexadecimal digits that
\* is a whole sha256 digest and half of a sha512 digest
Fragments ==
  { <<"1">>, <<"0">>, <<"h", ":", "m">>, Rep("a", SHA256_LEN) }

----------------------------------------------------------------------------
(* struct OstreeMetalinkRequest *)

\* _ostree_metalink_request_async: g_new0 zeroes the request, urls is a new
\* empty array.  file_name, verification_type and verification_value are
\* used through self-> by the handlers.  aborted records a failed g_assert,
\* failed_assert which one.
NewRequest ==
  [ passthrough_depth |-> 0,
    passthrough_previous |-> "INITIAL",
    found_a_file_element |-> FALSE,
    found_our_file_element |-> FALSE,
    verification_known |-> FALSE,
    verification_type |-> "G_CHECKSUM_MD5",
    verification_value |-> NULL,
    file_name |-> NULL,
    size |-> 0,
    verification_sha256 |-> NULL,
    verification_sha512 |-> NULL,
    urls |-> <<>>,
    state |-> "INITIAL",
    aborted |-> FALSE,
    failed_assert |-> "none" ]

\* what a handler leaves behind: the request and the GError it set
Handled(s, e) == [self |-> s, error |-> e]

\* static void state_transition (self, new_state)
state_transition(s, new_state) ==
  IF s.state = new_state
    THEN [s EXCEPT !.aborted = TRUE, !.failed_assert = "state != new_state"]
    ELSE [s EXCEPT !.state = new_state]

\* g_assert (self->passthrough_depth == 0), reached unless the process has
\* aborted already
assert_passthrough_depth_0(s) ==
  IF s.aborted \/ s.passthrough_depth = 0 THEN s
  ELSE [s EXCEPT !.aborted = TRUE, !.failed_assert = "passthrough_depth == 0"]

\* unknown_element counting the unknown element itself in passthrough_depth
unknown_element_counting(s) ==
  assert_passthrough_depth_0(
    [state_transition(s, "PASSTHROUGH") EXCEPT !.passthrough_depth = @ + 1])

\* static void unknown_element (self, element_name, error)
unknown_element(s) ==
  assert_passthrough_depth_0(state_transition(s, "PASSTHROUGH"))

\* the FILES case with an unknown element left to the state it came in
start_in_FILES_stay(s, element_name, attr) ==
  IF element_name = "file" /\ attr # NoAttr
    THEN Handled(state_transition(
                   [s EXCEPT !.found_a_file_element = TRUE,
                             !.found_our_file_element = @ \/ attr = requested_file],
                   IF attr = requested_file THEN "FILE" ELSE "PASSTHROUGH"), NoError)
    ELSE Handled(state_transition(s, "FILES"), NoError)

\* case OSTREE_METALINK_STATE_FILES of metalink_parser_start
start_in_FILES(s, element_name, attr) ==
  IF Len(s.urls) > 0
    THEN Handled(state_transition(s, "PASSTHROUGH"), NoError)
  ELSE IF element_name = "file"
    THEN LET cleared == [s EXCEPT !.file_name = NULL]
         IN IF attr = NoAttr
              THEN Handled(cleared, E_ATTR)
              ELSE LET found == [cleared EXCEPT !.found_a_file_element = TRUE]
                   IN IF attr # requested_file
                        THEN Handled(assert_passthrough_depth_0(
                                       state_transition(found, "PASSTHROUGH")), NoError)
                        ELSE Handled(state_transition(
                                       [found EXCEPT !.found_our_file_element = TRUE],
                                       "FILE"), NoError)
  ELSE Handled(unknown_element(s), NoError)

\* case OSTREE_METALINK_STATE_VERIFICATION of metalink_parser_start
start_in_VERIFICATION(s, element_name, attr) ==
  IF element_name = "hash"
    THEN LET moved == state_transition(s, "HASH")
         IN IF attr = NoAttr
              THEN Handled(moved, E_ATTR)
              ELSE Handled(
                     CASE attr = "sha256" ->
                            [moved EXCEPT !.verification_known = TRUE,
                                          !.verification_type = "G_CHECKSUM_SHA256"]
                       [] attr = "sha512" ->
                            [moved EXCEPT !.verification_known = TRUE,
                                          !.verification_type = "G_CHECKSUM_SHA512"]
                       [] OTHER ->
                            [moved EXCEPT !.verification_known = FALSE],
                     NoError)
    ELSE Handled(unknown_element(s), NoError)

\* case OSTREE_METALINK_STATE_RESOURCES of metalink_parser_start
start_in_RESOURCES(s, element_name, attr) ==
  IF s.size = 0 THEN Handled(s, E_SIZE)
  ELSE IF ~s.verification_known THEN Handled(s, E_VERIFICATION)
  ELSE IF element_name = "url"
    THEN IF attr = NoAttr THEN Handled(s, E_ATTR)
         ELSE IF ~(attr = "http" \/ attr = "https")
           THEN Handled(state_transition(s, "PASSTHROUGH"), NoError)
           ELSE Handled(state_transition(s, "URL"), NoError)
  ELSE Handled(unknown_element(s), NoError)

\* static void metalink_parser_start (context, element_name, attribute_names,
\*                                    attribute_values, user_data, error)
metalink_parser_start(s, element_name, attr) ==
  CASE s.state = "INITIAL" ->
         Handled(IF element_name = "metalink"
                   THEN state_transition(s, "METALINK")
                   ELSE unknown_element(s), NoError)
    [] s.state = "METALINK" ->
         Handled(IF element_name = "files"
                   THEN state_transition(s, "FILES")
                   ELSE unknown_element(s), NoError)
    [] s.state = "FILES" -> start_in_FILES(s, element_name, attr)
    [] s.state = "FILE" ->
         Handled(CASE element_name = "size" -> state_transition(s, "SIZE")
                   [] element_name = "verification" -> state_transition(s, "VERIFICATION")
                   [] element_name = "resources" -> state_transition(s, "RESOURCES")
                   [] OTHER -> unknown_element(s), NoError)
    [] s.state = "SIZE" -> Handled(unknown_element(s), NoError)
    [] s.state = "VERIFICATION" -> start_in_VERIFICATION(s, element_name, attr)
    [] s.state = "HASH" -> Handled(unknown_element(s), NoError)
    [] s.state = "RESOURCES" -> start_in_RESOURCES(s, element_name, attr)
    [] s.state = "URL" -> Handled(unknown_element(s), NoError)
    [] s.state = "PASSTHROUGH" ->
         Handled([s EXCEPT !.passthrough_depth = @ + 1], NoError)
    [] OTHER -> Handled(s, NoError)

\* static void metalink_parser_end (context, element_name, user_data, error):
\* the body only fetches self
metalink_parser_end(s) == Handled(s, NoError)

\* static void metalink_parser_text (context, text, text_len, user_data, error)
metalink_parser_text(s, text) ==
  CASE s.state = "SIZE" ->
         Handled([s EXCEPT !.size = g_ascii_strtoull(text)], NoError)
    [] s.state = "VERIFICATION" ->
         Handled(IF s.verification_known
                   THEN CASE s.verification_type = "G_CHECKSUM_SHA256" ->
                               [s EXCEPT !.verification_sha256 = text]
                          [] s.verification_type = "G_CHECKSUM_SHA512" ->
                               [s EXCEPT !.verification_sha512 = text]
                          [] OTHER -> [s EXCEPT !.aborted = TRUE]
                   ELSE s, NoError)
    [] s.state = "HASH" ->
         Handled([s EXCEPT !.verification_value = text], NoError)
    [] s.state = "URL" ->
         Handled(IF soup_uri_new(text) # NULL
                   THEN [s EXCEPT !.urls = Append(@, soup_uri_new(text))]
                   ELSE s, NoError)
    [] OTHER -> Handled(s, NoError)

\* start_target_request_phase with the url test moved before the digest tests
start_target_request_phase_urls_first(s) ==
  IF ~s.found_a_file_element THEN E_NOFILE
  ELSE IF ~s.found_our_file_element THEN E_NOTOURS
  ELSE IF Len(s.urls) = 0 THEN E_NOURL
  ELSE IF ~(s.verification_sha256 # NULL \/ s.verification_sha512 # NULL) THEN E_NOHASH
  ELSE IF s.verification_sha256 # NULL
          /\ ~valid_hex_checksum(s.verification_sha256, SHA256_LEN) THEN E_SHA256
  ELSE IF s.verification_sha512 # NULL
          /\ ~valid_hex_checksum(s.verification_sha512, SHA512_LEN) THEN E_SHA512
  ELSE NoError

\* static gboolean start_target_request_phase (self, error): the error it
\* sets, NoError when it returns TRUE
start_target_request_phase(s) ==
  IF ~s.found_a_file_element THEN E_NOFILE
  ELSE IF ~s.found_our_file_element THEN E_NOTOURS
  ELSE IF ~(s.verification_sha256 # NULL \/ s.verification_sha512 # NULL) THEN E_NOHASH
  ELSE IF s.verification_sha256 # NULL
          /\ ~valid_hex_checksum(s.verification_sha256, SHA256_LEN) THEN E_SHA256
  ELSE IF s.verification_sha512 # NULL
          /\ ~valid_hex_checksum(s.verification_sha512, SHA512_LEN) THEN E_SHA512
  ELSE IF Len(s.urls) = 0 THEN E_NOURL
  ELSE NoError

----------------------------------------------------------------------------
(* The document delivered so far, as the scanner has seen it *)

\* the role of an opened element in the metalink grammar, from the role of
\* its parent: metalink / files / file[name = requested_file] /
\* (size | verification / hash | resources / url); "x" is any other element
Role(path, element_name, attr) ==
  LET parent == IF path = <<>> THEN "document" ELSE path[Len(path)]
  IN CASE parent = "document" /\ element_name = "metalink" -> "metalink"
       [] parent = "metalink" /\ element_name = "files" -> "files"
       [] parent = "files" /\ element_name = "file" /\ attr = requested_file -> "file"
       [] parent = "file" /\ element_name = "size" -> "size"
       [] parent = "file" /\ element_name = "verification" -> "verification"
       [] parent = "file" /\ element_name = "resources" -> "resources"
       [] parent = "verification" /\ element_name = "hash"
            /\ attr \in {"sha256", "sha512"} -> attr
       [] parent = "verification" /\ element_name = "hash" /\ attr = "md5" -> "md5"
       [] parent = "resources" /\ element_name = "url"
            /\ attr \in {"http", "https"} -> "url"
       [] parent = "resources" /\ element_name = "url" /\ attr = "ftp" -> "ftp"
       [] OTHER -> "x"

\* no element seen yet
EmptyDocument ==
  [ malformed |-> FALSE,     \* the scanner rejected the document
    root |-> FALSE,          \* the root element was opened
    other_file |-> FALSE,    \* a file element of metalink/files has another name
    our_file |-> FALSE,      \* a file element of metalink/files has the requested name
    size |-> -1,             \* value of the text of the requested file's size element,
                             \* -1 when it has none
    known_hash |-> FALSE,    \* its verification has a sha256 or sha512 hash element
    digest |-> NULL,         \* <<name, text>> of the first such element whose text
                             \* is a digest of the length of the named algorithm
    url |-> FALSE,           \* its resources have an http(s) url with URI text
    ftp_url |-> FALSE ]      \* its resources have an ftp url

DocumentStart(d, path, element_name, attr) ==
  LET role == Role(path, element_name, attr)
      parent == IF path = <<>> THEN "document" ELSE path[Len(path)]
  IN [d EXCEPT
        !.root = TRUE,
        !.other_file = @ \/ (parent = "files" /\ element_name = "file"
                              /\ attr \notin {NoAttr, requested_file}),
        !.our_file = @ \/ role = "file",
        !.known_hash = @ \/ role \in {"sha256", "sha512"},
        !.ftp_url = @ \/ role = "ftp"]

\* text is the text delivered between the last tag and this end tag
DocumentEnd(d, path, text) ==
  LET role == path[Len(path)]
  IN CASE role = "size" -> [d EXCEPT !.size = g_ascii_strtoull(text)]
       [] role \in {"sha256", "sha512"} ->
            [d EXCEPT !.digest =
               IF @ = NULL /\ valid_hex_checksum(text, IF role = "sha256" THEN SHA256_LEN
                                                                          ELSE SHA512_LEN)
                 THEN <<role, text>> ELSE @]
       [] role = "url" -> [d EXCEPT !.url = @ \/ soup_uri_new(text) # NULL]
       [] OTHER -> d

\* what is known of a document the scanner has rejected
MalformedDocument == [EmptyDocument EXCEPT !.malformed = TRUE, !.root = TRUE]

NoSkip == [active |-> FALSE]

\* text is part of the document's size, digest or url, or reaches a case of
\* metalink_parser_text that stores it
TextMatters(path, s) ==
  \/ path # <<>> /\ path[Len(path)] \in {"size", "sha256", "sha512", "url"}
  \/ s.state \in {"SIZE", "VERIFICATION", "HASH", "URL"}

----------------------------------------------------------------------------
(* State *)

VARIABLES
  self,              \* the OstreeMetalinkRequest of the task
  pc,                \* "fetching": _ostree_fetcher_stream_uri_async pending
                     \* "reading":  g_input_stream_read_bytes_async pending
                     \* "parsing":  inside g_markup_parse_context_parse
                     \* "idle":     nothing pending
  cancelled,         \* the GCancellable of the task
  last_read,         \* outcome of the last g_input_stream_read_bytes_finish
  task_returns,      \* the errors given to g_task_return_error, in order
  parser_error,      \* the error that put the parse context in its error state
  error_in_call,     \* that error was set during the current parse call
  preflight_calls,   \* calls of start_target_request_phase
  preflight_result,  \* what the last of them set
  doc_path,          \* roles of the open elements, outermost first
  doc,               \* facts about the document delivered so far
  text_run,          \* text delivered since the last tag
  fragments,         \* number of text events it came in
  before_run,        \* the request before the first of them
  skip               \* set when a start event takes the machine from a recognised
                     \* state to PASSTHROUGH, until that element closes: the
                     \* request as the handler left it, in the state it came
                     \* from, and the number of elements open around it
VARIABLES
  sync               \* the call of _ostree_metalink_request_sync, if there is one:
                     \* where it is (pc), the MetalinkSyncCallState of its frame
                     \* (running, success), the value it returned (ret) and
                     \* whether on_async_result has run (called_back)

vars ==
  << self, pc, cancelled, last_read, task_returns, parser_error, error_in_call,
     preflight_calls, preflight_result, doc_path, doc,
     text_run, fragments, before_run, skip, sync >>

request_vars == << self, parser_error, error_in_call >>
document_vars == << doc_path, doc, text_run, fragments, before_run, skip >>
stream_vars == << pc, last_read, task_returns, preflight_calls, preflight_result >>

\* the request is driven by its asynchronous caller, not by
\* _ostree_metalink_request_sync
NoSyncCall ==
  [pc |-> "none", running |-> FALSE, success |-> FALSE, ret |-> FALSE,
   called_back |-> FALSE]

\* _ostree_metalink_request_async has run
RequestStarted ==
  /\ self = NewRequest
  /\ pc = "fetching"
  /\ cancelled = FALSE
  /\ last_read = "none"
  /\ task_returns = <<>>
  /\ parser_error = NoError
  /\ error_in_call = FALSE
  /\ preflight_calls = 0
  /\ preflight_result = NoError
  /\ doc_path = <<>>
  /\ doc = EmptyDocument
  /\ text_run = <<>>
  /\ fragments = 0
  /\ before_run = NewRequest
  /\ skip = NoSkip

Init == RequestStarted /\ sync = NoSyncCall

----------------------------------------------------------------------------
(* The scanner's callbacks, run inside g_markup_parse_context_parse *)

\* The file uses self->parser but holds no code that creates it; the parse
\* context is taken to be built over metalink_parser_start, metalink_parser_end
\* and metalink_parser_text, as the specification describes the dispatch.
\* A callback can run: a chunk is being parsed, the context is not in its
\* error state and no assertion has aborted the process
Scanning == pc = "parsing" /\ parser_error = NoError /\ ~self.aborted

ParserStart ==
  /\ Scanning
  /\ Len(doc_path) < MaxDepth
  /\ self.passthrough_depth < MaxPassthrough
  /\ doc_path = <<>> => ~doc.root
  /\ \E element_name \in ElementNames :
       \E attr \in AttrValues(element_name) :
         LET h == metalink_parser_start(self, element_name, attr)
         IN /\ self' = h.self
            /\ parser_error' = h.error
            /\ error_in_call' = (h.error # NoError)
            /\ doc_path' = Append(doc_path, Role(doc_path, element_name, attr))
            /\ doc' = DocumentStart(doc, doc_path, element_name, attr)
            /\ before_run' = h.self
            /\ skip' = IF self.state # "PASSTHROUGH" /\ h.self.state = "PASSTHROUGH"
                         THEN [active |-> TRUE,
                               before |-> [h.self EXCEPT !.state = self.state],
                               depth |-> Len(doc_path)]
                         ELSE skip
  /\ text_run' = <<>>
  /\ fragments' = 0
  /\ UNCHANGED << stream_vars, cancelled, sync >>

ParserEnd ==
  /\ Scanning
  /\ doc_path # <<>>
  /\ LET h == metalink_parser_end(self)
     IN /\ self' = h.self
        /\ parser_error' = h.error
        /\ error_in_call' = (h.error # NoError)
        /\ before_run' = h.self
  /\ doc_path' = SubSeq(doc_path, 1, Len(doc_path) - 1)
  /\ doc' = DocumentEnd(doc, doc_path, text_run)
  /\ skip' = IF skip.active /\ Len(doc_path) - 1 = skip.depth THEN NoSkip ELSE skip
  /\ text_run' = <<>>
  /\ fragments' = 0
  /\ UNCHANGED << stream_vars, cancelled, sync >>

ParserText ==
  /\ Scanning
  /\ doc_path # <<>>
  /\ fragments < MaxFragments
  /\ \E text \in Fragments :
       LET h == metalink_parser_text(self, text)
       IN /\ self' = h.self
          /\ parser_error' = h.error
          /\ error_in_call' = (h.error # NoError)
          /\ text_run' = IF TextMatters(doc_path, self) THEN text_run \o text ELSE <<>>
  /\ fragments' = IF TextMatters(doc_path, self) THEN fragments + 1 ELSE 0
  /\ before_run' = IF fragments = 0 THEN self ELSE before_run
  /\ UNCHANGED << stream_vars, cancelled, doc_path, doc, skip, sync >>

\* the scanner itself rejects the bytes: no callback runs
MarkupSyntaxError ==
  /\ Scanning
  /\ parser_error' = E_SYNTAX
  /\ error_in_call' = TRUE
  /\ doc' = MalformedDocument
  /\ doc_path' = <<>>
  /\ text_run' = <<>>
  /\ fragments' = 0
  /\ before_run' = self
  /\ skip' = NoSkip
  /\ UNCHANGED << self, stream_vars, cancelled, sync >>

----------------------------------------------------------------------------
(* The read loop *)

\* static void on_retrieved_metalink (src, result, user_data)
OnRetrievedMetalink ==
  /\ pc = "fetching"
  /\ \E stream \in IF cancelled THEN {"G_IO_ERROR_CANCELLED"}
                   ELSE {"stream", "G_IO_ERROR_FAILED"} :
       /\ pc' = IF stream = "stream" THEN "reading" ELSE "idle"
       /\ task_returns' = IF stream = "stream" THEN task_returns
                          ELSE Append(task_returns, stream)
  /\ UNCHANGED << request_vars, document_vars, cancelled, last_read,
                  preflight_calls, preflight_result, sync >>

\* static void on_metalink_bytes_read (src, result, user_data), up to the
\* call of g_markup_parse_context_parse.  The error of
\* g_input_stream_read_bytes_finish is stored through `error', not into
\* local_error, so that `out:' returns nothing to the task after a failed read.
OnMetalinkBytesRead ==
  /\ pc = "reading"
  /\ \E bytes \in IF cancelled THEN {"G_IO_ERROR_CANCELLED"}
                  ELSE {"G_IO_ERROR_FAILED", "empty", "data"} :
       LET local_error == IF bytes = "empty" THEN start_target_request_phase(self)
                          ELSE NoError
       IN /\ last_read' = bytes
          /\ pc' = IF bytes = "data" THEN "parsing" ELSE "idle"
          /\ preflight_calls' = IF bytes = "empty" THEN preflight_calls + 1
                                ELSE preflight_calls
          /\ preflight_result' = IF bytes = "empty" THEN local_error
                                 ELSE preflight_result
          /\ task_returns' = IF local_error # NoError
                               THEN Append(task_returns, local_error)
                               ELSE task_returns
  /\ UNCHANGED << request_vars, document_vars, cancelled, sync >>

\* on_metalink_bytes_read from the return of g_markup_parse_context_parse:
\* the result of the call is not looked at and the next read is issued.  The
\* source line of the call breaks off before its last argument: the call
\* stores its error either in local_error, which `out:' returns to the task,
\* or elsewhere.
OnMetalinkBytesParsed ==
  /\ pc = "parsing"
  /\ \E parse_error_arg \in {"local_error", "elsewhere"} :
       LET local_error == IF error_in_call /\ parse_error_arg = "local_error"
                            THEN parser_error ELSE NoError
       IN task_returns' = IF local_error # NoError
                            THEN Append(task_returns, local_error)
                            ELSE task_returns
  /\ pc' = "reading"
  /\ error_in_call' = FALSE
  /\ UNCHANGED << self, parser_error, document_vars, cancelled, last_read,
                  preflight_calls, preflight_result, sync >>

\* the caller raises the cancellation signal; callbacks and callers share one
\* thread, so this happens while the fetch or a read is pending
Cancel ==
  /\ ~cancelled
  /\ pc \in {"fetching", "reading"}
  /\ cancelled' = TRUE
  /\ UNCHANGED << request_vars, document_vars, stream_vars, sync >>

Next ==
  \/ OnRetrievedMetalink
  \/ OnMetalinkBytesRead
  \/ ParserStart
  \/ ParserEnd
  \/ ParserText
  \/ MarkupSyntaxError
  \/ OnMetalinkBytesParsed
  \/ Cancel

Spec == Init /\ [][Next]_vars

----------------------------------------------------------------------------
(* The blocking request *)

\* _ostree_metalink_request_sync up to its loop: `state = { 0, }' leaves
\* running and success FALSE, and _ostree_metalink_request_async is called
\* with on_async_result and &state
SyncInit ==
  /\ RequestStarted
  /\ sync = [pc |-> "loop", running |-> FALSE, success |-> FALSE, ret |-> FALSE,
             called_back |-> FALSE]

\* while (state.running) g_main_context_iteration (sync_context, TRUE);
\* ret = state.success; return ret.  Nothing is attached to sync_context, so
\* an iteration dispatches no callback of the request.
RequestSyncLoop ==
  /\ sync.pc = "loop"
  /\ sync' = IF sync.running
               THEN sync
               ELSE [sync EXCEPT !.pc = "returned", !.ret = sync.success]
  /\ UNCHANGED << request_vars, document_vars, stream_vars, cancelled >>

\* static void on_async_result (src, result, user_data): the callback of the
\* task, run once the task has been given its result.  The body of
\* ostree_metalink_request_finish is empty, so the value stored in success is
\* any gboolean; user_data points into the frame of the blocking request.
OnAsyncResult ==
  /\ sync.pc = "returned"
  /\ ~sync.called_back
  /\ task_returns # <<>>
  /\ \E finished \in BOOLEAN :
       sync' = [sync EXCEPT !.success = finished, !.running = FALSE,
                            !.called_back = TRUE]
  /\ UNCHANGED << request_vars, document_vars, stream_vars, cancelled >>

\* callbacks of the request are dispatched by the main context of the caller,
\* which runs again once the blocking request has returned
CallerRuns == sync.pc = "returned"

SyncNext ==
  \/ RequestSyncLoop
  \/ OnAsyncResult
  \/ CallerRuns /\ OnRetrievedMetalink
  \/ CallerRuns /\ OnMetalinkBytesRead
  \/ CallerRuns /\ ParserStart
  \/ CallerRuns /\ ParserEnd
  \/ CallerRuns /\ ParserText
  \/ CallerRuns /\ MarkupSyntaxError
  \/ CallerRuns /\ OnMetalinkBytesParsed
  \/ CallerRuns /\ Cancel

SyncSpec == SyncInit /\ [][SyncNext]_vars

----------------------------------------------------------------------------
(* start_target_request_phase and valid_hex_checksum as functions of the
   fields of the request *)

\* characters of digest arguments: decimal and hexadecimal digits of both
\* cases, and others
DigestChars == {"0", "9", "a", "f", "A", "F", "g", " "}

\* digest arguments around the length n: a run of one hexadecimal digit of
\* length n - 1, n or n + 1, with its first or last character replaced
DigestInputs(n) ==
  {<<>>} \cup
  UNION { { [Rep("a", m) EXCEPT ![q] = d] : q \in {1, m}, d \in DigestChars } :
            m \in {n - 1, n, n + 1} }

\* the candidate urls of a request holding n of them
UrlInputs == { [i \in 1..n |-> <<"h", ":", "m">>] : n \in 0..MaxUrls }

\* requests at the end of the stream, field by field
PreflightInputs ==
  { [NewRequest EXCEPT !.found_a_file_element = a,
                       !.found_our_file_element = o,
                       !.size = z,
                       !.verification_sha256 = d256,
                       !.verification_sha512 = d512,
                       !.urls = u] :
      a \in BOOLEAN, o \in BOOLEAN, z \in {0, 1},
      d256 \in {NULL} \cup DigestInputs(SHA256_LEN),
      d512 \in {NULL, Rep("a", SHA256_LEN)} \cup DigestInputs(SHA512_LEN),
      u \in UrlInputs }

\* on_retrieved_metalink has opened the stream and issued the first read
StreamOpen ==
  /\ pc = "reading"
  /\ cancelled = FALSE
  /\ last_read = "none"
  /\ task_returns = <<>>
  /\ parser_error = NoError
  /\ error_in_call = FALSE
  /\ preflight_calls = 0
  /\ preflight_result = NoError
  /\ doc_path = <<>>
  /\ doc = EmptyDocument
  /\ text_run = <<>>
  /\ fragments = 0
  /\ before_run = NewRequest
  /\ skip = NoSkip
  /\ sync = NoSyncCall

PreflightInit == self \in PreflightInputs /\ StreamOpen

PreflightSpec == PreflightInit /\ [][OnMetalinkBytesRead]_vars

----------------------------------------------------------------------------
(* The handlers on any sequence of events, delivered in any chunks *)

\* the stream of a new request is open and its first read is pending
MachineInit == self = NewRequest /\ StreamOpen

\* metalink_parser_start on any element, whatever elements are open
HandleStart ==
  /\ Scanning
  /\ self.passthrough_depth < MaxPassthrough
  /\ \E element_name \in ElementNames :
       \E attr \in AttrValues(element_name) :
         LET h == metalink_parser_start(self, element_name, attr)
         IN /\ self' = h.self
            /\ parser_error' = h.error
            /\ error_in_call' = (h.error # NoError)
  /\ UNCHANGED << document_vars, stream_vars, cancelled, sync >>

\* metalink_parser_end
HandleEnd ==
  /\ Scanning
  /\ LET h == metalink_parser_end(self)
     IN /\ self' = h.self
        /\ parser_error' = h.error
        /\ error_in_call' = (h.error # NoError)
  /\ UNCHANGED << document_vars, stream_vars, cancelled, sync >>

\* metalink_parser_text on any text
HandleText ==
  /\ Scanning
  /\ Len(self.urls) < MaxUrls
  /\ \E text \in Fragments :
       LET h == metalink_parser_text(self, text)
       IN /\ self' = h.self
          /\ parser_error' = h.error
          /\ error_in_call' = (h.error # NoError)
  /\ UNCHANGED << document_vars, stream_vars, cancelled, sync >>

MachineNext ==
  \/ OnMetalinkBytesRead
  \/ HandleStart
  \/ HandleEnd
  \/ HandleText
  \/ OnMetalinkBytesParsed

MachineSpec == MachineInit /\ [][MachineNext]_vars

----------------------------------------------------------------------------
(* The handlers as functions of the request: from each state inside the file
   element of the requested name, with each value of the fields the handlers
   read.  The end handler leaves every state inside an element, so most of
   these requests are met only as arguments of the handlers. *)

HandlerInputs ==
  { [NewRequest EXCEPT !.found_a_file_element = TRUE,
                       !.found_our_file_element = TRUE,
                       !.state = st,
                       !.size = z,
                       !.verification_known = k,
                       !.verification_type = t,
                       !.verification_sha256 = d256,
                       !.verification_sha512 = d512] :
      st \in {"FILE", "SIZE", "VERIFICATION", "HASH", "RESOURCES", "URL"},
      z \in {0, 1}, k \in BOOLEAN,
      t \in {"G_CHECKSUM_SHA256", "G_CHECKSUM_SHA512"},
      d256 \in {NULL, Rep("a", SHA256_LEN)},
      d512 \in {NULL, Rep("a", SHA512_LEN)} }

HandlerInit == self \in HandlerInputs /\ StreamOpen

HandlerSpec == HandlerInit /\ [][MachineNext]_vars

----------------------------------------------------------------------------
(* Properties *)

\* every element of the document has been closed
Complete == doc.root /\ doc_path = <<>> /\ ~doc.malformed

\* the read loop saw the end of the stream and ran the validation
EndOfStream == last_read = "empty"

\* the document has a file element of the requested name with a nonzero
\* size, a sha256 or sha512 digest of the right length and an http(s) url
\* with URI text
ValidManifest ==
  /\ doc.our_file
  /\ doc.size > 0
  /\ doc.digest # NULL
  /\ doc.url

\* C1: for a complete manifest with the requested file, a nonzero size, a
\* well-formed sha256/sha512 digest and an http(s) url, the validation at the
\* end of the stream succeeds and the request holds the size and the digest
\* of the document.
C1_ValidManifestResolves ==
  (ValidManifest /\ Complete /\ EndOfStream) =>
     /\ preflight_result = NoError
     /\ self.size = doc.size
     /\ doc.digest[1] = "sha256" => self.verification_sha256 = doc.digest[2]
     /\ doc.digest[1] = "sha512" => self.verification_sha512 = doc.digest[2]

\* C2: when the element that sent the machine from a recognised state S to
\* PASSTHROUGH closes, the machine is back in S with the fields it had.
C2_UnknownSubtreeSkipped ==
  [][ ( /\ skip.active
        /\ parser_error' = NoError
        /\ Len(doc_path) = skip.depth + 1
        /\ Len(doc_path') = skip.depth )
      => self' = skip.before ]_vars

\* C3: after the text of an element has come in several text events, size,
\* digests and urls are what one text event with the whole text gives.
C3_FragmentationInvariance ==
  fragments >= 1 =>
    LET whole == metalink_parser_text(before_run, text_run).self
    IN /\ self.size = whole.size
       /\ self.verification_sha256 = whole.verification_sha256
       /\ self.verification_sha512 = whole.verification_sha512
       /\ self.urls = whole.urls

\* C4: once a child of the resources of the requested file has been opened
\* while the file has no size or a size of 0, the missing/zero size error has
\* been raised.
C4_MissingSizeFails ==
  ( /\ Len(doc_path) >= 5
    /\ doc_path[3] = "file"
    /\ doc_path[4] = "resources"
    /\ doc.size <= 0 )
  => parser_error = E_SIZE

\* C5: for a manifest whose requested file has no sha256/sha512 hash element,
\* the digests stay unset, and at the end of the stream of the complete
\* manifest the validation fails with the no-digest-found error, unless the
\* resources precondition already raised the missing-recognised-digest error.
C5_UnsupportedHashFails ==
  (doc.our_file /\ ~doc.known_hash) =>
     /\ self.verification_sha256 = NULL
     /\ self.verification_sha512 = NULL
     /\ (Complete /\ EndOfStream) =>
          (preflight_result = E_NOHASH \/ parser_error = E_VERIFICATION)

\* C6: a complete manifest whose requested file has a nonzero size and a
\* well-formed digest but only ftp urls fails at the end of the stream with
\* the no-usable-url error, and an ftp url never adds to urls.
C6_OnlyFtpUrlsFails ==
  /\ (doc.ftp_url /\ ~doc.url) => self.urls = <<>>
  /\ ( /\ doc.our_file
       /\ doc.size > 0
       /\ doc.digest # NULL
       /\ doc.ftp_url /\ ~doc.url
       /\ Complete /\ EndOfStream )
     => preflight_result = E_NOURL

\* C7: for a manifest whose file elements all have other names, size,
\* digests and urls are never populated, and at the end of the stream of the
\* complete manifest the validation fails with the
\* requested-file-not-present error.
C7_RequestedFileMissing ==
  (doc.other_file /\ ~doc.our_file) =>
     /\ self.size = 0
     /\ self.verification_sha256 = NULL
     /\ self.verification_sha512 = NULL
     /\ self.urls = <<>>
     /\ (Complete /\ EndOfStream) => preflight_result = E_NOTOURS

\* C8: when a read issued after a chunk was parsed ends cancelled, the task
\* has been completed with the cancellation error.
C8_CancelCompletesTask ==
  (doc.root /\ last_read = "G_IO_ERROR_CANCELLED") =>
     \E i \in 1..Len(task_returns) : task_returns[i] = "G_IO_ERROR_CANCELLED"

\* C9: once a callback or the scanner has reported a failure and that parse
\* call has returned, no read is pending and the task has been completed
\* with that failure.
C9_ParseFailureStopsLoop ==
  (parser_error # NoError /\ pc # "parsing") =>
     /\ pc = "idle"
     /\ last_read = "data"
     /\ task_returns = << parser_error >>

C11_SyncReturnsAfterCompletion ==
  sync.pc = "returned" =>
     /\ sync.called_back
     /\ task_returns # <<>>
     /\ sync.ret = (task_returns[1] = "success")

\* the lowercase hexadecimal digits
LowerHexDigits ==
  {"0", "1", "2", "3", "4", "5", "6", "7", "8", "9", "a", "b", "c", "d", "e", "f"}

\* value has exactly n characters, all of them lowercase hexadecimal digits
LowerHex(value, n) ==
  Len(value) = n /\ \A i \in 1..Len(value) : value[i] \in LowerHexDigits

\* the checks of the end-of-stream validation in the order the specification
\* gives them, each with the error it reports
PreflightChecks(s) ==
  << [ok |-> s.found_a_file_element, error |-> E_NOFILE],
     [ok |-> s.found_our_file_element, error |-> E_NOTOURS],
     [ok |-> s.verification_sha256 # NULL \/ s.verification_sha512 # NULL,
      error |-> E_NOHASH],
     [ok |-> s.verification_sha256 = NULL \/ LowerHex(s.verification_sha256, 64),
      error |-> E_SHA256],
     [ok |-> s.verification_sha512 = NULL \/ LowerHex(s.verification_sha512, 128),
      error |-> E_SHA512],
     [ok |-> Len(s.urls) > 0, error |-> E_NOURL] >>

\* C12: at the end of the stream the validation reports the error of the
\* first check that fails, in the order some file found, requested file found,
\* a digest set, sha256 well-formed, sha512 well-formed, a candidate url; it
\* succeeds iff no check fails.
C12_PreflightOrder ==
  EndOfStream =>
     LET checks == PreflightChecks(self)
         failing == {i \in 1..Len(checks) : ~checks[i].ok}
     IN /\ preflight_calls = 1
        /\ preflight_result =
              IF failing = {} THEN NoError
              ELSE checks[CHOOSE i \in failing : \A j \in failing : i <= j].error

\* C12 witness: two checks fail (an ill-formed sha256 digest and no candidate
\* url) and the error reported is that of the earlier one
C12_Witness ==
  /\ EndOfStream
  /\ self.found_a_file_element /\ self.found_our_file_element
  /\ self.verification_sha256 # NULL /\ ~LowerHex(self.verification_sha256, 64)
  /\ self.urls = <<>>
  /\ preflight_result = E_SHA256

\* C13: the digest validator accepts a string for the length 64 or 128 iff
\* the string has exactly that many characters, each in 0-9 or a-f; at the
\* end of the stream a digest that is set is reported ill-formed iff it is
\* not such a string.
C13_DigestValidator ==
  LET d256 == self.verification_sha256
      d512 == self.verification_sha512
      earlier == self.found_a_file_element /\ self.found_our_file_element
  IN /\ d256 # NULL => (valid_hex_checksum(d256, SHA256_LEN) <=> LowerHex(d256, 64))
     /\ d512 # NULL => (valid_hex_checksum(d512, SHA512_LEN) <=> LowerHex(d512, 128))
     /\ (EndOfStream /\ earlier /\ d256 # NULL) =>
          (preflight_result = E_SHA256 <=> ~LowerHex(d256, 64))
     /\ (EndOfStream /\ earlier /\ d256 = NULL /\ d512 # NULL) =>
          (preflight_result = E_SHA512 <=> ~LowerHex(d512, 128))

\* C13 witness: a sha512 digest of the right length with an uppercase
\* hexadecimal digit has been rejected
C13_Witness ==
  /\ EndOfStream
  /\ self.verification_sha256 = NULL
  /\ self.verification_sha512 # NULL
  /\ Len(self.verification_sha512) = SHA512_LEN
  /\ \E i \in 1..SHA512_LEN : self.verification_sha512[i] \in {"A", "F"}
  /\ preflight_result = E_SHA512

ParentState ==
  [ URL |-> "RESOURCES", HASH |-> "VERIFICATION", SIZE |-> "FILE",
    VERIFICATION |-> "FILE", RESOURCES |-> "FILE", FILE |-> "FILES",
    FILES |-> "METALINK", METALINK |-> "INITIAL" ]

\* C15: an end-of-element event inverts the start-of-element event: in
\* PASSTHROUGH with a positive depth it decrements the depth, in PASSTHROUGH
\* with depth 0 it leaves PASSTHROUGH, and in any other state it moves to the
\* parent state, with passthrough_depth 0.
C15_EndInvertsStart ==
  [][ (pc = "parsing" /\ Len(doc_path') = Len(doc_path) - 1 /\ parser_error' = NoError) =>
        CASE self.state = "PASSTHROUGH" /\ self.passthrough_depth > 0 ->
               /\ self'.state = "PASSTHROUGH"
               /\ self'.passthrough_depth = self.passthrough_depth - 1
          [] self.state = "PASSTHROUGH" /\ self.passthrough_depth = 0 ->
               /\ self'.state # "PASSTHROUGH"
               /\ self'.passthrough_depth = 0
          [] self.state \in DOMAIN ParentState ->
               /\ self'.state = ParentState[self.state]
               /\ self'.passthrough_depth = 0
          [] OTHER -> TRUE ]_vars

\* the subtree of a file element with the requested name has closed
MatchingFileClosed ==
  doc.our_file /\ \A i \in 1..Len(doc_path) : doc_path[i] # "file"

\* C17: once the subtree of a file element with the requested name has
\* closed, a start-of-element event in FILES goes to PASSTHROUGH, and no event
\* changes the size, the digests or the candidate urls.
C17_FrozenAfterMatchingFile ==
  [][ (MatchingFileClosed /\ pc = "parsing") =>
        /\ self'.size = self.size
        /\ self'.verification_sha256 = self.verification_sha256
        /\ self'.verification_sha512 = self.verification_sha512
        /\ self'.urls = self.urls
        /\ (self.state = "FILES" /\ Len(doc_path') = Len(doc_path) + 1
              /\ parser_error' = NoError) => self'.state = "PASSTHROUGH" ]_vars

\* C19: passthrough_depth is nonzero only in PASSTHROUGH, every step into
\* PASSTHROUGH from another state arrives with passthrough_depth 0, and the
\* assertion passthrough_depth == 0 never fails.
C19_DepthOnlyInPassthrough ==
  [][ /\ self'.state # "PASSTHROUGH" => self'.passthrough_depth = 0
      /\ (self.state # "PASSTHROUGH" /\ self'.state = "PASSTHROUGH") =>
            self'.passthrough_depth = 0
      /\ self'.failed_assert # "passthrough_depth == 0" ]_vars

\* C19 witness: the machine entered PASSTHROUGH at a file element of another
\* name, where the depth is asserted, and has counted nested elements since
C19_Witness ==
  /\ self.state = "PASSTHROUGH"
  /\ self.found_a_file_element /\ ~self.found_our_file_element
  /\ self.passthrough_depth = MaxPassthrough
  /\ ~self.aborted

\* C20: the assertion state != new_state of state_transition never fails.
C20_NoSelfTransition == self.failed_assert # "state != new_state"

\* C20 witness: state_transition has been called on the way to HASH and from
\* there to PASSTHROUGH, without a failed assertion
C20_Witness ==
  /\ self.state = "PASSTHROUGH"
  /\ self.verification_known
  /\ self.verification_value # NULL
  /\ ~self.aborted

====
